---- MODULE Spec2Model ----
(***************************************************************************)
(* A model of build_custom_image.py: FrappeImageBuilder.build() as a       *)
(* sequential process.  Each method that build() calls is one action; the  *)
(* position of the process is pc.  The outside world (argv, os.environ,    *)
(* the answers typed at the prompts, the docker CLI, the file system, the  *)
(* user's Ctrl-C) is an input chosen with \E where the code reads it.      *)
(*                                                                         *)
(* Text that the code inspects or transforms (str.strip, str.split,        *)
(* json.dumps, b64encode) is a sequence of one-character strings; text it  *)
(* only passes along is a TLA+ string.                                     *)
(***************************************************************************)
EXTENDS Integers, Sequences, FiniteSets, TLC

(***************************************************************************)
(* Bounds of the model                                                     *)
(***************************************************************************)
MaxApps == 2          \* longest apps array read from the apps file
MaxTempFiles == 2     \* longest temp_files list handed to _cleanup
MaxReturnCode == 3    \* largest exit code of a subprocess

VARIABLES
    pc,            \* position of build(): the next step to run
    env,           \* os.environ restricted to the six recognised variables
    args,          \* argparse.Namespace returned by _parse_arguments
    config,        \* self.config
    temp_files,    \* self.temp_files
    files,         \* file system: state of each temporary file
    probe,         \* what _validate_prerequisites observed
    apps_file,     \* what open()/json.load found at config['apps_file']
    apps_config,   \* the list returned by _load_apps_config
    cmd,           \* the list returned by _build_docker_command
    popen_calls,   \* number of subprocess.Popen(cmd) calls ('docker build')
    build_result,  \* how _execute_build ended, and its return value
    summary,       \* the Status line printed by _print_build_summary
    raised,        \* what ended the try block of build()
    exit_code,     \* argument of the pending/final sys.exit, <<>> if none
    cleanup_log,   \* what _cleanup did with each temporary file, in order
    cleanup_runs   \* number of times _cleanup has run

vars == <<pc, env, args, config, temp_files, files, probe, apps_file,
          apps_config, cmd, popen_calls, build_result, summary, raised,
          exit_code, cleanup_log, cleanup_runs>>

(***************************************************************************)
(* Text                                                                    *)
(***************************************************************************)
\* str.strip(): leading and trailing whitespace removed
RECURSIVE lstrip(_)
lstrip(s) == IF s # <<>> /\ Head(s) \in {" ", "\t", "\n"} THEN lstrip(Tail(s)) ELSE s

RECURSIVE rstrip(_)
rstrip(s) ==
    IF s # <<>> /\ s[Len(s)] \in {" ", "\t", "\n"}
    THEN rstrip(SubSeq(s, 1, Len(s) - 1))
    ELSE s

strip(s) == rstrip(lstrip(s))

\* str.split(sep) for a one-character separator: the list of the pieces
RECURSIVE split(_, _)
split(s, sep) ==
    IF \A i \in 1..Len(s) : s[i] # sep
    THEN <<s>>
    ELSE LET i == CHOOSE j \in 1..Len(s) :
                      s[j] = sep /\ \A k \in 1..(j - 1) : s[k] # sep
         IN  <<SubSeq(s, 1, i - 1)>> \o split(SubSeq(s, i + 1, Len(s)), sep)

(***************************************************************************)
(* Defaults of the command line (and of the prompts)                       *)
(***************************************************************************)
DefaultAppsFile == <<"a","p","p","s",".","j","s","o","n">>
DefaultTag ==
    <<"f","r","a","p","p","e","_","c","u","s","t","o","m",":","l","a","t","e","s","t">>
DefaultFrappePath == "https://github.com/frappe/frappe"
DefaultFrappeBranch == <<"v","e","r","s","i","o","n","-","1","5">>
DefaultPythonVersion == <<"3",".","1","1",".","6">>
DefaultNodeVersion == <<"2","0",".","1","9",".","2">>
DefaultDebianBase == "bookworm"
DefaultWkhtmltopdfVersion == "0.12.6.1-3"
DefaultWkhtmltopdfDistro == "bookworm"

\* Exit statuses
ExitSuccess == 0
ExitFailure == 1
ExitInterrupted == 130

(***************************************************************************)
(* Inputs: command lines and environments                                  *)
(***************************************************************************)
\* The Namespace of a command line that names no value flag
DefaultArgs ==
    [apps_file |-> DefaultAppsFile, tag |-> DefaultTag,
     build_method |-> "layered", frappe_path |-> DefaultFrappePath,
     frappe_branch |-> DefaultFrappeBranch,
     python_version |-> DefaultPythonVersion,
     node_version |-> DefaultNodeVersion, debian_base |-> DefaultDebianBase,
     wkhtmltopdf_version |-> DefaultWkhtmltopdfVersion,
     wkhtmltopdf_distro |-> DefaultWkhtmltopdfDistro,
     interactive |-> FALSE, dry_run |-> FALSE, verbose |-> FALSE,
     quiet |-> FALSE]

\* The Namespace of a command line that passes every value flag explicitly,
\* with the given --tag
ExplicitArgs(t) ==
    [DefaultArgs EXCEPT
        !.apps_file = <<"c",".","j","s","o","n">>,
        !.tag = t,
        !.frappe_path = "https://example.org/fork",
        !.frappe_branch = <<"d","e","v">>,
        !.python_version = <<"3",".","1","2">>,
        !.node_version = <<"2","2">>,
        !.debian_base = "trixie",
        !.wkhtmltopdf_version = "0.12.7",
        !.wkhtmltopdf_distro = "jammy"]

\* Explicit values of --tag: one with a ':' and one without
CliTags == {<<"b","a","z",":","q","u","x">>, <<"m","y","i","m","g">>}

\* --quiet and --verbose as <<quiet, verbose>>
Verbosity == {<<FALSE, FALSE>>, <<TRUE, FALSE>>, <<FALSE, TRUE>>}

ArgsSet ==
    {[a EXCEPT !.build_method = m, !.interactive = i, !.dry_run = d,
               !.quiet = qv[1], !.verbose = qv[2]] :
        a \in {DefaultArgs} \cup {ExplicitArgs(t) : t \in CliTags},
        m \in {"layered", "custom"}, i \in BOOLEAN, d \in BOOLEAN,
        qv \in Verbosity}

EnvVars == {"FRAPPE_PATH", "FRAPPE_BRANCH", "PYTHON_VERSION", "NODE_VERSION",
            "DOCKER_TAG", "APPS_FILE"}

\* The value each variable has when it is set
EnvValue ==
    [FRAPPE_PATH |-> "https://env.example/frappe",
     FRAPPE_BRANCH |-> <<"e","n","v","-","1","4">>,
     PYTHON_VERSION |-> <<"3",".","1","0">>,
     NODE_VERSION |-> <<"1","8">>,
     DOCKER_TAG |-> <<"f","o","o",":","b","a","r">>,
     APPS_FILE |-> <<"e",".","j","s","o","n">>]

\* Environments: no variable set, one set, all but one set, all set
EnvSubsets ==
    {S \in SUBSET EnvVars :
        Cardinality(S) <= 1 \/ Cardinality(S) >= Cardinality(EnvVars) - 1}

Environments == {[v \in S |-> EnvValue[v]] : S \in EnvSubsets}

(***************************************************************************)
(* Leaving the try block of build()                                        *)
(***************************************************************************)
None == <<>>

\* sys.exit(code): SystemExit is not an Exception, so no except clause of
\* build() catches it; the finally clause runs next.
SysExit(code) ==
    /\ raised' = "SystemExit"
    /\ exit_code' = <<code>>
    /\ pc' = "cleanup"

\* except KeyboardInterrupt: sys.exit(130)
ExceptKeyboardInterrupt ==
    /\ raised' = "KeyboardInterrupt"
    /\ exit_code' = <<ExitInterrupted>>
    /\ pc' = "cleanup"

\* except Exception: sys.exit(1)
ExceptException ==
    /\ raised' = "Exception"
    /\ exit_code' = <<ExitFailure>>
    /\ pc' = "cleanup"

(***************************************************************************)
(* __init__                                                                *)
(***************************************************************************)
NoProbe == [docker_version |-> "not_run", docker_info |-> "not_run",
            checked_files |-> FALSE, present |-> {}, result |-> "none"]
NoAppsFile == [status |-> "not_read", top |-> "none", items |-> <<>>]
NoBuild == [how |-> "not_run", returncode |-> 0, success |-> FALSE]

\* The temporary files that can exist, by number
TempNames == 1..MaxTempFiles

InitCommon ==
    /\ pc = "parse_arguments"
    /\ args = DefaultArgs
    /\ config = <<>>
    /\ probe = NoProbe
    /\ apps_file = NoAppsFile
    /\ apps_config = <<>>
    /\ cmd = <<>>
    /\ popen_calls = 0
    /\ build_result = NoBuild
    /\ summary = "none"
    /\ raised = "none"
    /\ exit_code = None
    /\ cleanup_log = <<>>
    /\ cleanup_runs = 0

Init ==
    /\ InitCommon
    /\ env \in Environments
    /\ temp_files = <<>>
    /\ files = [f \in TempNames |-> "absent"]

(***************************************************************************)
(* _parse_arguments                                                        *)
(***************************************************************************)
_parse_arguments ==
    /\ pc = "parse_arguments"
    /\ \E a \in ArgsSet : args' = a
    /\ pc' = "load_config"
    /\ UNCHANGED <<env, config, temp_files, files, probe, apps_file,
                   apps_config, cmd, popen_calls, build_result, summary,
                   raised, exit_code, cleanup_log,
                   cleanup_runs>>

\* parser.parse_args() ends the run itself: --help exits 0, a command line
\* it rejects exits 2.
_parse_arguments_exit ==
    /\ pc = "parse_arguments"
    /\ \E code \in {0, 2} : SysExit(code)
    /\ UNCHANGED <<env, args, config, temp_files, files, probe, apps_file,
                   apps_config, cmd, popen_calls, build_result, summary,
                   cleanup_log,
                   cleanup_runs>>

(***************************************************************************)
(* _load_config                                                            *)
(***************************************************************************)
env_mappings ==
    << <<"FRAPPE_PATH", "frappe_path">>,
       <<"FRAPPE_BRANCH", "frappe_branch">>,
       <<"PYTHON_VERSION", "python_version">>,
       <<"NODE_VERSION", "node_version">>,
       <<"DOCKER_TAG", "tag">>,
       <<"APPS_FILE", "apps_file">> >>

\* for env_var, config_key in env_mappings.items(): ... from item i on
RECURSIVE apply_env(_, _, _)
apply_env(c, e, i) ==
    IF i > Len(env_mappings)
    THEN c
    ELSE LET env_var == env_mappings[i][1]
             config_key == env_mappings[i][2]
         IN  apply_env(IF env_var \in DOMAIN e
                       THEN [c EXCEPT ![config_key] = e[env_var]]
                       ELSE c,
                       e, i + 1)

\* Variant: a flag passed explicitly on the command line keeps its value
load_config_cli_first(a, e) ==
    [k \in DOMAIN a |->
        IF a[k] # DefaultArgs[k] THEN a[k] ELSE apply_env(a, e, 1)[k]]

load_config(a, e) == apply_env(a, e, 1)

_load_config ==
    /\ pc = "load_config"
    /\ config' = load_config(args, env)
    /\ pc' = IF config'.interactive THEN "interactive" ELSE "prerequisites"
    /\ UNCHANGED <<env, args, temp_files, files, probe, apps_file,
                   apps_config, cmd, popen_calls, build_result, summary,
                   raised, exit_code, cleanup_log,
                   cleanup_runs>>

(***************************************************************************)
(* _interactive_config                                                     *)
(***************************************************************************)
\* What the user types at the prompts (the return values of input())
BlankAnswers ==
    [choice |-> <<>>, apps_file |-> <<>>, tag |-> <<" ">>,
     frappe_branch |-> <<>>, python_version |-> <<>>, node_version |-> <<>>]

GivenAnswers(c, t) ==
    [choice |-> c, apps_file |-> <<"i",".","j","s","o","n">>, tag |-> t,
     frappe_branch |-> <<"m","a","i","n">>,
     python_version |-> <<"3",".","1","3">>, node_version |-> <<" ","2","4">>]

AnswerSets ==
    {[BlankAnswers EXCEPT !.choice = c] : c \in {<<>>, <<"2"," ">>}}
    \cup {GivenAnswers(c, t) :
            c \in {<<"1">>, <<"2">>},
            t \in {<<"i","m","g",":","v","1"," ">>, <<"i","m","g">>}}

\* x if x else default
or_default(x, default) == IF x # <<>> THEN x ELSE default

\* The number of prompts _interactive_config shows for the chosen method
num_prompts(a) == IF strip(a.choice) = <<"2">> THEN 6 ELSE 4

\* self.config after the first n prompts of _interactive_config were
\* answered with a
interactive_config(c, a, n) ==
    LET c1 == IF n >= 1
              THEN [c EXCEPT !.build_method =
                        IF strip(a.choice) = <<"2">> THEN "custom" ELSE "layered"]
              ELSE c
        c2 == IF n >= 2
              THEN [c1 EXCEPT !.apps_file =
                        or_default(strip(a.apps_file), DefaultAppsFile)]
              ELSE c1
        c3 == IF n >= 3
              THEN [c2 EXCEPT !.tag = or_default(strip(a.tag), DefaultTag)]
              ELSE c2
        c4 == IF n >= 4
              THEN [c3 EXCEPT !.frappe_branch =
                        or_default(strip(a.frappe_branch), DefaultFrappeBranch)]
              ELSE c3
        c5 == IF n >= 5 /\ c4.build_method = "custom"
              THEN [c4 EXCEPT !.python_version =
                        or_default(strip(a.python_version), DefaultPythonVersion)]
              ELSE c4
        c6 == IF n >= 6 /\ c5.build_method = "custom"
              THEN [c5 EXCEPT !.node_version =
                        or_default(strip(a.node_version), DefaultNodeVersion)]
              ELSE c5
    IN  c6

_interactive_config ==
    /\ pc = "interactive"
    /\ \E a \in AnswerSets : config' = interactive_config(config, a, num_prompts(a))
    /\ pc' = "prerequisites"
    /\ UNCHANGED <<env, args, temp_files, files, probe, apps_file,
                   apps_config, cmd, popen_calls, build_result, summary,
                   raised, exit_code, cleanup_log,
                   cleanup_runs>>

\* input() raises at prompt n + 1: KeyboardInterrupt on Ctrl-C, EOFError
\* when stdin is closed; the prompts before it were answered.
_interactive_config_raises ==
    /\ pc = "interactive"
    /\ \E a \in AnswerSets, n \in 0..5 :
          /\ n < num_prompts(a)
          /\ config' = interactive_config(config, a, n)
    /\ \/ ExceptKeyboardInterrupt
       \/ ExceptException
    /\ UNCHANGED <<env, args, temp_files, files, probe, apps_file,
                   apps_config, cmd, popen_calls, build_result, summary,
                   cleanup_log,
                   cleanup_runs>>

(***************************************************************************)
(* _validate_prerequisites                                                 *)
(***************************************************************************)
required_files == <<"images/layered/Containerfile", "images/custom/Containerfile">>

\* What the checks can find.  A check that is not reached observes nothing.
\*   docker --version: ok, nonzero, FileNotFoundError, OSError (any other
\*                     failure to launch), KeyboardInterrupt
\*   docker info:      ok, nonzero, Exception, KeyboardInterrupt
\*   present:          the required files that exist
Probes ==
    {[docker_version |-> dv, docker_info |-> "not_run", checked_files |-> FALSE,
      present |-> {}, result |-> "none"] :
        dv \in {"nonzero", "FileNotFoundError", "OSError", "KeyboardInterrupt"}}
    \cup
    {[docker_version |-> "ok", docker_info |-> di, checked_files |-> FALSE,
      present |-> {}, result |-> "none"] :
        di \in {"nonzero", "Exception", "KeyboardInterrupt"}}
    \cup
    {[docker_version |-> "ok", docker_info |-> "ok", checked_files |-> TRUE,
      present |-> S, result |-> "none"] :
        S \in SUBSET {required_files[i] : i \in 1..Len(required_files)}}

\* Variant: only the first required file is looked for
validate_prerequisites_first_file(p) ==
    IF p.docker_version = "KeyboardInterrupt" THEN "KeyboardInterrupt"
    ELSE IF p.docker_version = "OSError" THEN "Exception"
    ELSE IF p.docker_version \in {"nonzero", "FileNotFoundError"} THEN "False"
    ELSE IF p.docker_info = "KeyboardInterrupt" THEN "KeyboardInterrupt"
    ELSE IF p.docker_info \in {"nonzero", "Exception"} THEN "False"
    ELSE IF required_files[1] \notin p.present THEN "False"
    ELSE "True"

\* How _validate_prerequisites ends: it returns "True" or "False", or an
\* exception that it does not catch leaves it.
validate_prerequisites(p) ==
    IF p.docker_version = "KeyboardInterrupt" THEN "KeyboardInterrupt"
    ELSE IF p.docker_version = "OSError" THEN "Exception"
    ELSE IF p.docker_version \in {"nonzero", "FileNotFoundError"} THEN "False"
    ELSE IF p.docker_info = "KeyboardInterrupt" THEN "KeyboardInterrupt"
    ELSE IF p.docker_info \in {"nonzero", "Exception"} THEN "False"
    ELSE IF \E i \in 1..Len(required_files) : required_files[i] \notin p.present
         THEN "False"
    ELSE "True"

_validate_prerequisites ==
    /\ pc = "prerequisites"
    /\ \E p \in Probes :
          LET r == validate_prerequisites(p)
          IN  /\ probe' = [p EXCEPT !.result = r]
              /\ CASE r = "True" ->
                        pc' = "load_apps" /\ UNCHANGED <<raised, exit_code>>
                   [] r = "False" -> SysExit(ExitFailure)
                   [] r = "KeyboardInterrupt" -> ExceptKeyboardInterrupt
                   [] OTHER -> ExceptException
    /\ UNCHANGED <<env, args, config, temp_files, files, apps_file,
                   apps_config, cmd, popen_calls, build_result, summary,
                   cleanup_log,
                   cleanup_runs>>

(***************************************************************************)
(* _load_apps_config                                                       *)
(***************************************************************************)
\* JSON values.  A leaf is [t, v] with v its text; an element of the array
\* is an object (t = "obj", fields = its key/value pairs in file order) or
\* a leaf.
json_str(s) == [t |-> "str", v |-> s]
json_num(s) == [t |-> "num", v |-> s]
json_null == [t |-> "null", v |-> <<>>]
field(k, val) == [key |-> k, val |-> val]
json_obj(fs) == [t |-> "obj", v |-> <<>>, fields |-> fs]
json_leaf(l) == [t |-> l.t, v |-> l.v, fields |-> <<>>]

key_url == <<"u","r","l">>
key_branch == <<"b","r","a","n","c","h">>

\* Entries that _load_apps_config accepts
GoodEntries ==
    {json_obj(<<field(key_url, json_str(<<"a">>)),
                field(key_branch, json_str(<<"b">>))>>),
     json_obj(<<field(key_branch, json_str(<<>>)),
                field(<<"x">>, json_num(<<"1">>)),
                field(<<"q">>, json_str(<<"\"", "\\">>)),
                field(key_url, json_null)>>)}

\* Entries that it rejects
BadEntries ==
    {json_leaf(json_str(<<"a">>)),
     json_obj(<<field(key_branch, json_str(<<"b">>))>>),
     json_obj(<<field(key_url, json_str(<<"a">>))>>)}

RECURSIVE SeqsUpTo(_, _)
SeqsUpTo(S, n) ==
    IF n = 0
    THEN {<<>>}
    ELSE LET shorter == SeqsUpTo(S, n - 1)
         IN  shorter \cup {Append(s, x) : s \in shorter, x \in S}

\* What can be found at the apps file path
AppsFiles ==
    {[status |-> st, top |-> "none", items |-> <<>>] :
        st \in {"missing", "unreadable", "invalid_json"}}
    \cup {[status |-> "json", top |-> "obj", items |-> <<>>]}
    \cup {[status |-> "json", top |-> "arr", items |-> s] :
            s \in SeqsUpTo(GoodEntries, MaxApps)}
    \cup {[status |-> "json", top |-> "arr", items |-> Append(s, b)] :
            s \in SeqsUpTo(GoodEntries, MaxApps - 1), b \in BadEntries}

has_key(app, k) == \E i \in 1..Len(app.fields) : app.fields[i].key = k

\* Variant: the 'branch' field is not asked for
app_error_no_branch_check(app) ==
    IF app.t # "obj" THEN "must be a JSON object"
    ELSE IF ~has_key(app, key_url) THEN "missing required 'url' field"
    ELSE ""

\* The first problem the validation loop finds in app, "" if none
app_error(app) ==
    IF app.t # "obj" THEN "must be a JSON object"
    ELSE IF ~has_key(app, key_url) THEN "missing required 'url' field"
    ELSE IF ~has_key(app, key_branch) THEN "missing required 'branch' field"
    ELSE ""

\* How _load_apps_config ends on file f: "ok" (it returns f.items) or the
\* exception raised inside its try block
load_apps_config(f) ==
    IF f.status = "missing" THEN "FileNotFoundError"
    ELSE IF f.status = "unreadable" THEN "OSError"
    ELSE IF f.status = "invalid_json" THEN "JSONDecodeError"
    ELSE IF f.top # "arr" THEN "ValueError"
    ELSE IF \E i \in 1..Len(f.items) : app_error(f.items[i]) # "" THEN "ValueError"
    ELSE "ok"

_load_apps_config ==
    /\ pc = "load_apps"
    /\ \E f \in AppsFiles :
          LET r == load_apps_config(f)
          IN  /\ apps_file' = f
              /\ CASE r = "ok" ->
                        /\ apps_config' = f.items
                        /\ pc' = "build_docker_command"
                        /\ UNCHANGED <<raised, exit_code>>
                   [] r \in {"FileNotFoundError", "JSONDecodeError", "ValueError"} ->
                        SysExit(ExitFailure) /\ UNCHANGED apps_config
                   [] OTHER -> ExceptException /\ UNCHANGED apps_config
    /\ UNCHANGED <<env, args, config, temp_files, files, probe, cmd,
                   popen_calls, build_result, summary, cleanup_log,
                   cleanup_runs>>

(***************************************************************************)
(* json.dumps(apps_config, indent=2) and b64encode                         *)
(***************************************************************************)
RECURSIVE concat(_)
concat(ss) == IF ss = <<>> THEN <<>> ELSE Head(ss) \o concat(Tail(ss))

\* sep.join(ss)
RECURSIVE join(_, _)
join(sep, ss) ==
    IF ss = <<>> THEN <<>>
    ELSE IF Len(ss) = 1 THEN ss[1]
    ELSE ss[1] \o sep \o join(sep, Tail(ss))

spaces(n) == [i \in 1..n |-> " "]

\* A string between quotes; '"' and '\' are escaped
dumps_str(s) ==
    <<"\"">>
    \o concat([i \in 1..Len(s) |->
                  IF s[i] \in {"\"", "\\"} THEN <<"\\", s[i]>> ELSE <<s[i]>>])
    \o <<"\"">>

\* Variant: null is written the way str() writes None
dumps_leaf_python_none(l) ==
    IF l.t = "str" THEN dumps_str(l.v)
    ELSE IF l.t = "null" THEN <<"N","o","n","e">>
    ELSE l.v

dumps_leaf(l) ==
    IF l.t = "str" THEN dumps_str(l.v)
    ELSE IF l.t = "null" THEN <<"n","u","l","l">>
    ELSE l.v

\* A container: empty, or one item per line, indented one level deeper
dumps_block(open, close, lines, level) ==
    IF lines = <<>>
    THEN <<open, close>>
    ELSE <<open, "\n">>
         \o join(<<",", "\n">>,
                 [i \in 1..Len(lines) |-> spaces(2 * (level + 1)) \o lines[i]])
         \o <<"\n">> \o spaces(2 * level) \o <<close>>

dumps_app(app, level) ==
    IF app.t = "obj"
    THEN dumps_block("{", "}",
             [i \in 1..Len(app.fields) |->
                 dumps_str(app.fields[i].key) \o <<":", " ">>
                 \o dumps_leaf(app.fields[i].val)],
             level)
    ELSE dumps_leaf(app)

json_dumps(apps) ==
    dumps_block("[", "]", [i \in 1..Len(apps) |-> dumps_app(apps[i], 1)], 0)

\* The ASCII characters with codes 32..95 and 97..126
ascii_32_95 ==
    <<" ","!","\"","#","$","%","&","'","(",")","*","+",",","-",".","/",
      "0","1","2","3","4","5","6","7","8","9",":",";","<","=",">","?",
      "@","A","B","C","D","E","F","G","H","I","J","K","L","M","N","O",
      "P","Q","R","S","T","U","V","W","X","Y","Z","[","\\","]","^","_">>

ascii_97_126 ==
    <<"a","b","c","d","e","f","g","h","i","j","k","l","m","n","o","p",
      "q","r","s","t","u","v","w","x","y","z","{","|","}","~">>

\* ord(c) for an ASCII character; str.encode() yields one such byte each
ord(c) ==
    IF c = "\n" THEN 10
    ELSE IF c = "\t" THEN 9
    ELSE IF \E i \in 1..Len(ascii_32_95) : ascii_32_95[i] = c
    THEN 31 + CHOOSE i \in 1..Len(ascii_32_95) : ascii_32_95[i] = c
    ELSE 96 + CHOOSE i \in 1..Len(ascii_97_126) : ascii_97_126[i] = c

encode(s) == [i \in 1..Len(s) |-> ord(s[i])]

b64_alphabet ==
    <<"A","B","C","D","E","F","G","H","I","J","K","L","M","N","O","P",
       "Q","R","S","T","U","V","W","X","Y","Z","a","b","c","d","e","f",
       "g","h","i","j","k","l","m","n","o","p","q","r","s","t","u","v",
       "w","x","y","z","0","1","2","3","4","5","6","7","8","9","+","/">>

\* The k-th 6-bit group (k = 3 the highest) of the 24-bit number n
sextet(n, k) ==
    b64_alphabet[1 + ((n \div (IF k = 3 THEN 262144
                              ELSE IF k = 2 THEN 4096
                              ELSE IF k = 1 THEN 64
                              ELSE 1)) % 64)]

\* b64encode(bytes).decode(): four characters per three bytes, '=' padded
RECURSIVE b64encode(_)
b64encode(bytes) ==
    IF bytes = <<>> THEN <<>>
    ELSE IF Len(bytes) = 1
    THEN LET n == bytes[1] * 65536
         IN  <<sextet(n, 3), sextet(n, 2), "=", "=">>
    ELSE IF Len(bytes) = 2
    THEN LET n == bytes[1] * 65536 + bytes[2] * 256
         IN  <<sextet(n, 3), sextet(n, 2), sextet(n, 1), "=">>
    ELSE LET n == bytes[1] * 65536 + bytes[2] * 256 + bytes[3]
         IN  <<sextet(n, 3), sextet(n, 2), sextet(n, 1), sextet(n, 0)>>
             \o b64encode(SubSeq(bytes, 4, Len(bytes)))

apps_json_base64(apps) == b64encode(encode(json_dumps(apps)))

(***************************************************************************)
(* _get_build_args, _build_docker_command                                  *)
(***************************************************************************)
\* Tokens of the command: a literal of the code, a value passed as it is,
\* or f'{key}={value}'
lit(s) == [kind |-> "lit", key |-> "", value |-> s]
val(v) == [kind |-> "val", key |-> "", value |-> v]
key_value(k, v) == [kind |-> "key=value", key |-> k, value |-> v]

\* Variant: the five arguments of the custom method are always passed
get_build_args_all(c) ==
    << <<"FRAPPE_PATH", c.frappe_path>>,
       <<"FRAPPE_BRANCH", c.frappe_branch>>,
       <<"APPS_JSON_BASE64", c.apps_json_base64>>,
       <<"PYTHON_VERSION", c.python_version>>,
       <<"NODE_VERSION", c.node_version>>,
       <<"DEBIAN_BASE", c.debian_base>>,
       <<"WKHTMLTOPDF_VERSION", c.wkhtmltopdf_version>>,
       <<"WKHTMLTOPDF_DISTRO", c.wkhtmltopdf_distro>> >>

\* The dict of build arguments as its items, in insertion order
get_build_args(c) ==
    << <<"FRAPPE_PATH", c.frappe_path>>,
       <<"FRAPPE_BRANCH", c.frappe_branch>>,
       <<"APPS_JSON_BASE64", c.apps_json_base64>> >>
    \o (IF c.build_method = "custom"
        THEN << <<"PYTHON_VERSION", c.python_version>>,
                <<"NODE_VERSION", c.node_version>>,
                <<"DEBIAN_BASE", c.debian_base>>,
                <<"WKHTMLTOPDF_VERSION", c.wkhtmltopdf_version>>,
                <<"WKHTMLTOPDF_DISTRO", c.wkhtmltopdf_distro>> >>
        ELSE <<>>)

build_docker_command(c) ==
    LET build_args == get_build_args(c)
    IN  <<lit("docker"), lit("build")>>
        \o concat([i \in 1..Len(build_args) |->
                      <<lit("--build-arg"),
                        key_value(build_args[i][1], build_args[i][2])>>])
        \o <<lit("--tag"), val(c.tag)>>
        \o <<lit("--file"),
             val("images/" \o c.build_method \o "/Containerfile")>>
        \o <<lit(".")>>

\* build(): encode the apps list into the configuration, then compose the
\* command
_build_docker_command ==
    /\ pc = "build_docker_command"
    /\ config' = [k \in DOMAIN config \cup {"apps_json_base64"} |->
                     IF k = "apps_json_base64"
                     THEN apps_json_base64(apps_config)
                     ELSE config[k]]
    /\ cmd' = build_docker_command(config')
    /\ pc' = "execute_build"
    /\ UNCHANGED <<env, args, temp_files, files, probe, apps_file,
                   apps_config, popen_calls, build_result, summary, raised,
                   exit_code, cleanup_log, cleanup_runs>>

(***************************************************************************)
(* _execute_build                                                          *)
(***************************************************************************)
\* What happens once 'docker build' is launched: the process exits with a
\* code, Ctrl-C arrives while its output is streamed or awaited, or Popen
\* (or the read of the pipe) raises
BuildOutcomes ==
    {[how |-> "exited", returncode |-> n] : n \in 0..MaxReturnCode}
    \cup {[how |-> h, returncode |-> 0] : h \in {"KeyboardInterrupt", "Exception"}}

\* Variant: a build that exits non-zero is launched a second time
execute_build_retry(c, o) ==
    IF c.dry_run
    THEN [how |-> "dry_run", returncode |-> 0, success |-> TRUE, popen |-> 0]
    ELSE [how |-> o.how, returncode |-> o.returncode,
          success |-> (o.how = "exited" /\ o.returncode = 0),
          popen |-> IF o.how = "exited" /\ o.returncode # 0 THEN 2 ELSE 1]

\* Variant: the dry-run flag is not looked at
execute_build_no_dry_run(c, o) ==
    [how |-> o.how, returncode |-> o.returncode,
     success |-> (o.how = "exited" /\ o.returncode = 0), popen |-> 1]

\* The result of _execute_build: how it ended, its return value (success)
\* and the number of Popen calls it made
execute_build(c, o) ==
    IF c.dry_run
    THEN [how |-> "dry_run", returncode |-> 0, success |-> TRUE, popen |-> 0]
    ELSE [how |-> o.how, returncode |-> o.returncode,
          success |-> (o.how = "exited" /\ o.returncode = 0), popen |-> 1]

_execute_build ==
    /\ pc = "execute_build"
    /\ \E o \in BuildOutcomes :
          LET r == execute_build(config, o)
          IN  /\ build_result' =
                    [how |-> r.how, returncode |-> r.returncode, success |-> r.success]
              /\ popen_calls' = popen_calls + r.popen
    /\ pc' = "print_build_summary"
    /\ UNCHANGED <<env, args, config, temp_files, files, probe, apps_file,
                   apps_config, cmd, summary, raised, exit_code, cleanup_log,
                   cleanup_runs>>

(***************************************************************************)
(* _print_build_summary and the end of the try block                       *)
(***************************************************************************)
\* What _print_build_summary prints as Status, and whether it raises: the
\* success branch prints the status first and evaluates tag.split(':')[1]
\* in its last line.
print_build_summary(c, success) ==
    IF success
    THEN [status |-> "SUCCESS", raises |-> Len(split(c.tag, ":")) < 2]
    ELSE [status |-> "FAILED", raises |-> FALSE]

\* build(): the summary unless quiet, then sys.exit(0 if success else 1)
_print_build_summary ==
    /\ pc = "print_build_summary"
    /\ LET success == build_result.success
           s == IF config.quiet
                THEN [status |-> "none", raises |-> FALSE]
                ELSE print_build_summary(config, success)
       IN  /\ summary' = s.status
           /\ IF s.raises
              THEN ExceptException
              ELSE SysExit(IF success THEN ExitSuccess ELSE ExitFailure)
    /\ UNCHANGED <<env, args, config, temp_files, files, probe, apps_file,
                   apps_config, cmd, popen_calls, build_result, cleanup_log,
                   cleanup_runs>>

(***************************************************************************)
(* _cleanup (the finally clause of build())                                *)
(***************************************************************************)
\* A temporary file is "present" (os.remove succeeds), "busy" (it exists
\* and os.remove raises) or "absent".
FileStates == {"present", "busy", "absent"}

\* The file system and the log after the loop has run from item i on.  An
\* exception of os.remove is caught inside the loop, so none leaves _cleanup.
RECURSIVE cleanup_from(_, _, _, _)
cleanup_from(tf, fs, log, i) ==
    IF i > Len(tf)
    THEN [files |-> fs, log |-> log, raises |-> FALSE]
    ELSE LET f == tf[i]
         IN  IF fs[f] = "present"
             THEN cleanup_from(tf, [fs EXCEPT ![f] = "absent"],
                               Append(log, <<f, "Cleaned up">>), i + 1)
             ELSE IF fs[f] = "busy"
             THEN cleanup_from(tf, fs, Append(log, <<f, "Failed to clean up">>), i + 1)
             ELSE cleanup_from(tf, fs, Append(log, <<f, "skipped">>), i + 1)

\* Variant: the exception of os.remove is not caught inside the loop
RECURSIVE cleanup_unguarded_from(_, _, _, _)
cleanup_unguarded_from(tf, fs, log, i) ==
    IF i > Len(tf)
    THEN [files |-> fs, log |-> log, raises |-> FALSE]
    ELSE LET f == tf[i]
         IN  IF fs[f] = "present"
             THEN cleanup_unguarded_from(tf, [fs EXCEPT ![f] = "absent"],
                                         Append(log, <<f, "Cleaned up">>), i + 1)
             ELSE IF fs[f] = "busy"
             THEN [files |-> fs, log |-> log, raises |-> TRUE]
             ELSE cleanup_unguarded_from(tf, fs, Append(log, <<f, "skipped">>), i + 1)

cleanup_unguarded(tf, fs) == cleanup_unguarded_from(tf, fs, <<>>, 1)

cleanup(tf, fs) == cleanup_from(tf, fs, <<>>, 1)

\* The finally clause: an exception leaving _cleanup would replace the
\* pending SystemExit and end the process as an uncaught error (status 1).
_cleanup ==
    /\ pc = "cleanup"
    /\ LET r == cleanup(temp_files, files)
       IN  /\ files' = r.files
           /\ cleanup_log' = r.log
           /\ exit_code' = IF r.raises THEN <<ExitFailure>> ELSE exit_code
    /\ cleanup_runs' = cleanup_runs + 1
    /\ pc' = "done"
    /\ UNCHANGED <<env, args, config, temp_files, probe, apps_file,
                   apps_config, cmd, popen_calls, build_result, summary,
                   raised>>

Next ==
    \/ _parse_arguments
    \/ _parse_arguments_exit
    \/ _load_config
    \/ _interactive_config
    \/ _interactive_config_raises
    \/ _validate_prerequisites
    \/ _load_apps_config
    \/ _build_docker_command
    \/ _execute_build
    \/ _print_build_summary
    \/ _cleanup

Spec == Init /\ [][Next]_vars

\* The same program started by a caller that has registered temporary files
\* in builder.temp_files (main() registers none) and runs it with none of
\* the six variables set.
InitCleanup ==
    /\ InitCommon
    /\ env = <<>>
    /\ \E n \in 0..MaxTempFiles :
          /\ temp_files = [i \in 1..n |-> i]
          /\ files \in {fs \in [TempNames -> FileStates] :
                           \A f \in TempNames : f > n => fs[f] = "absent"}

SpecCleanup == InitCleanup /\ [][Next]_vars

(***************************************************************************)
(* Reading a composed command                                              *)
(***************************************************************************)
is_lit(tok, s) == tok.kind = "lit" /\ tok.value = s

\* The names K of the '--build-arg K=V' entries of command c
build_arg_names(c) ==
    {c[i + 1].key : i \in {j \in 1..(Len(c) - 1) : is_lit(c[j], "--build-arg")}}

\* The value V of the entry '--build-arg name=V' of command c
build_arg_value(c, name) ==
    c[CHOOSE i \in 2..Len(c) :
          is_lit(c[i - 1], "--build-arg") /\ c[i].key = name].value

\* The token that follows the literal flag in command c
option_value(c, flag) ==
    c[1 + CHOOSE i \in 1..(Len(c) - 1) : is_lit(c[i], flag)].value

composed == cmd # <<>>
loaded == DOMAIN config # {}
terminated == pc = "done"

(***************************************************************************)
(* C1                                                                      *)
(***************************************************************************)
\* C1: in an interactive run, every value that the composed command uses
\* and whose environment variable is set (tag/DOCKER_TAG, apps_file/APPS_FILE,
\* frappe_branch/FRAPPE_BRANCH, python_version/PYTHON_VERSION,
\* node_version/NODE_VERSION) is the variable's value, not the answer.
C1_EnvOverridesInteractive ==
    (composed /\ args.interactive) =>
        /\ "DOCKER_TAG" \in DOMAIN env =>
              option_value(cmd, "--tag") = env["DOCKER_TAG"]
        /\ "APPS_FILE" \in DOMAIN env => config.apps_file = env["APPS_FILE"]
        /\ "FRAPPE_BRANCH" \in DOMAIN env =>
              build_arg_value(cmd, "FRAPPE_BRANCH") = env["FRAPPE_BRANCH"]
        /\ ("PYTHON_VERSION" \in DOMAIN env
                /\ "PYTHON_VERSION" \in build_arg_names(cmd)) =>
              build_arg_value(cmd, "PYTHON_VERSION") = env["PYTHON_VERSION"]
        /\ ("NODE_VERSION" \in DOMAIN env
                /\ "NODE_VERSION" \in build_arg_names(cmd)) =>
              build_arg_value(cmd, "NODE_VERSION") = env["NODE_VERSION"]

(***************************************************************************)
(* C2                                                                      *)
(***************************************************************************)
\* A KeyboardInterrupt was raised in this run: one that reached the except
\* clause of build(), or one raised while the build was streamed or awaited
interrupted ==
    raised = "KeyboardInterrupt" \/ build_result.how = "KeyboardInterrupt"

\* C2: a run in which the user interrupted, at any point, ends with exit
\* status 130 (and so not with the status 1 of a failed build).
C2_InterruptExits130 ==
    (terminated /\ interrupted) => exit_code = <<ExitInterrupted>>

(***************************************************************************)
(* C3                                                                      *)
(***************************************************************************)
\* C3: in a run that is not a dry run, whose prerequisites and apps file
\* were accepted and whose docker build process exited, the exit status is
\* 0 exactly if the process exited with code 0, for every tag and in quiet
\* and non-quiet mode.
C3_ExitZeroIffBuildZero ==
    (terminated /\ build_result.how = "exited") =>
        (exit_code = <<ExitSuccess>> <=> build_result.returncode = 0)

(***************************************************************************)
(* C4                                                                      *)
(***************************************************************************)
\* The apps file is missing, is not JSON, is not an array, or has an
\* element without 'url' or without 'branch'
apps_file_invalid(f) ==
    \/ f.status \in {"missing", "invalid_json"}
    \/ f.status = "json" /\ f.top # "arr"
    \/ f.status = "json" /\ f.top = "arr"
         /\ \E i \in 1..Len(f.items) :
               ~has_key(f.items[i], key_url) \/ ~has_key(f.items[i], key_branch)

\* C4: once such an apps file has been read, the run is ending with a
\* non-zero exit status, and no 'docker build' is launched in it.
C4_InvalidAppsFileNoBuild ==
    apps_file_invalid(apps_file) =>
        /\ pc \in {"cleanup", "done"}
        /\ exit_code # None /\ exit_code # <<ExitSuccess>>
        /\ popen_calls = 0
        /\ ~composed

\* C4 witness: a run that ended with status 1 on an array whose second
\* element has 'url' but no 'branch'
C4_Witness ==
    /\ terminated
    /\ apps_file.status = "json" /\ apps_file.top = "arr"
    /\ Len(apps_file.items) = 2
    /\ has_key(apps_file.items[2], key_url)
    /\ ~has_key(apps_file.items[2], key_branch)
    /\ exit_code = <<ExitFailure>>
    /\ popen_calls = 0

(***************************************************************************)
(* C5                                                                      *)
(***************************************************************************)
\* C5: a run only terminates after _cleanup has run; _cleanup visits every
\* temporary file, removes each one that can be removed whatever happened
\* to the others, and leaves the pending exit status as it was.
C5_CleanupOnEveryPath ==
    /\ [](terminated =>
            /\ cleanup_runs = 1
            /\ Len(cleanup_log) = Len(temp_files)
            /\ \A i \in 1..Len(temp_files) :
                  /\ cleanup_log[i][1] = temp_files[i]
                  /\ files[temp_files[i]] # "present")
    /\ [][pc = "cleanup" => exit_code' = exit_code]_vars

\* C5 witness: a run that ended through the except Exception clause, whose
\* first temporary file could not be removed and whose second one was
\* removed, with the status of the clause
C5_Witness ==
    /\ terminated
    /\ raised = "Exception"
    /\ Len(temp_files) >= 2
    /\ cleanup_log[1] = <<temp_files[1], "Failed to clean up">>
    /\ cleanup_log[2] = <<temp_files[2], "Cleaned up">>
    /\ exit_code = <<ExitFailure>>

(***************************************************************************)
(* C6                                                                      *)
(***************************************************************************)
\* The environment variable of each config key that has one
C6_variable ==
    [frappe_path |-> "FRAPPE_PATH", frappe_branch |-> "FRAPPE_BRANCH",
     python_version |-> "PYTHON_VERSION", node_version |-> "NODE_VERSION",
     tag |-> "DOCKER_TAG", apps_file |-> "APPS_FILE"]

\* C6: in a run without --interactive, each of the six keys whose variable
\* is set has the variable's value, whatever the command line passed; every
\* other key of the command line has the command line's value.
C6_EnvOverridesCli ==
    (loaded /\ ~args.interactive) =>
        \A k \in DOMAIN args :
            config[k] = IF k \in DOMAIN C6_variable /\ C6_variable[k] \in DOMAIN env
                        THEN env[C6_variable[k]]
                        ELSE args[k]

\* C6 witness: --tag and --frappe-branch passed explicitly, DOCKER_TAG set
\* and FRAPPE_BRANCH not set
C6_Witness ==
    /\ loaded /\ ~args.interactive
    /\ args.tag = <<"b","a","z",":","q","u","x">>
    /\ args.frappe_branch = <<"d","e","v">>
    /\ DOMAIN env = {"DOCKER_TAG"}
    /\ config.tag = <<"f","o","o",":","b","a","r">>
    /\ config.frappe_branch = <<"d","e","v">>

(***************************************************************************)
(* C7                                                                      *)
(***************************************************************************)
build_failed == build_result.how = "exited" /\ build_result.returncode # 0

\* C7: a run whose docker build exited non-zero launched it exactly once,
\* showed status FAILED in the summary, and ends with exit status 1 after
\* _cleanup has run.
C7_FailedBuildReported ==
    (terminated /\ build_failed) =>
        /\ popen_calls = 1
        /\ summary = "FAILED"
        /\ exit_code = <<ExitFailure>>
        /\ cleanup_runs = 1

\* C7 as amended: the summary shows status FAILED unless the run is quiet,
\* and a quiet run prints no summary.
C7_FailedBuildReportedUnlessQuiet ==
    (terminated /\ build_failed) =>
        /\ popen_calls = 1
        /\ summary = (IF config.quiet THEN "none" ELSE "FAILED")
        /\ exit_code = <<ExitFailure>>
        /\ cleanup_runs = 1

\* C7 witness: the build exited with the largest code in a run that is not
\* quiet
C7_Witness ==
    /\ terminated
    /\ build_result.how = "exited" /\ build_result.returncode = MaxReturnCode
    /\ ~config.quiet
    /\ summary = "FAILED"
    /\ popen_calls = 1
    /\ exit_code = <<ExitFailure>>

(***************************************************************************)
(* C8                                                                      *)
(***************************************************************************)
\* C8: in a dry run no 'docker build' is launched, and _execute_build, once
\* called, has only printed the command and returned success.
C8_DryRunSpawnsNothing ==
    (loaded /\ config.dry_run) =>
        /\ popen_calls = 0
        /\ build_result.how \in {"not_run", "dry_run"}
        /\ build_result.how = "dry_run" => build_result.success

\* C8 witness: _execute_build has returned in a dry run of the custom method
C8_Witness ==
    /\ loaded /\ config.dry_run
    /\ composed
    /\ config.build_method = "custom"
    /\ build_result.how = "dry_run" /\ build_result.success
    /\ popen_calls = 0

(***************************************************************************)
(* C9                                                                      *)
(***************************************************************************)
\* A prerequisite check fails: docker --version is not found or exits
\* non-zero, docker info exits non-zero or raises an Exception, or a
\* required file is missing
prerequisite_fails(p) ==
    \/ p.docker_version \in {"nonzero", "FileNotFoundError"}
    \/ p.docker_version = "ok" /\ p.docker_info \in {"nonzero", "Exception"}
    \/ p.checked_files
         /\ p.present # {"images/layered/Containerfile", "images/custom/Containerfile"}

C10_always == {"FRAPPE_PATH", "FRAPPE_BRANCH", "APPS_JSON_BASE64"}
C10_custom_only == {"PYTHON_VERSION", "NODE_VERSION", "DEBIAN_BASE",
                    "WKHTMLTOPDF_VERSION", "WKHTMLTOPDF_DISTRO"}

\* C10: a composed command has --build-arg entries FRAPPE_PATH,
\* FRAPPE_BRANCH and APPS_JSON_BASE64; for the layered method it has none
\* of the five custom arguments and for the custom method all five, also
\* when the method was chosen at the prompt.
C10_BuildArgsByMethod ==
    composed =>
        /\ C10_always \subseteq build_arg_names(cmd)
        /\ config.build_method = "layered" =>
              build_arg_names(cmd) \cap C10_custom_only = {}
        /\ config.build_method = "custom" =>
              C10_custom_only \subseteq build_arg_names(cmd)
        /\ config.build_method \in {"layered", "custom"}

\* C10 witness: --build-method custom on the command line, layered chosen
\* at the prompt, and a command without the five arguments
C10_Witness ==
    /\ composed
    /\ args.interactive
    /\ args.build_method = "custom"
    /\ config.build_method = "layered"
    /\ build_arg_names(cmd) = C10_always

(***************************************************************************)
(* C11                                                                     *)
(***************************************************************************)
\* The value of field k of app (of its first field named k)
field_value(app, k) ==
    app.fields[CHOOSE i \in 1..Len(app.fields) : app.fields[i].key = k].val

\* app has a field k whose value is a string that is not empty
nonempty_string_field(app, k) ==
    /\ has_key(app, k)
    /\ field_value(app, k).t = "str"
    /\ field_value(app, k).v # <<>>

\* C11: every entry of the list that _load_apps_config returned and that
\* was encoded into APPS_JSON_BASE64 has a non-empty string 'url' and a
\* non-empty string 'branch'.
C11_EntriesHaveUrlAndBranch ==
    composed =>
        \A i \in 1..Len(apps_config) :
            /\ nonempty_string_field(apps_config[i], key_url)
            /\ nonempty_string_field(apps_config[i], key_branch)

(***************************************************************************)
(* C12                                                                     *)
(***************************************************************************)
\* What a consumer of the build argument does with it: base64.b64decode,
\* bytes.decode and json.loads.

\* The 6-bit value of each character of the base64 alphabet
b64_value ==
    [c \in {b64_alphabet[i] : i \in 1..Len(b64_alphabet)} |->
        (CHOOSE i \in 1..Len(b64_alphabet) : b64_alphabet[i] = c) - 1]

\* The bytes that the base64 text s stands for; FALSE in ok if s is not
\* base64 text
b64decode(s) ==
    LET valid ==
            /\ Len(s) % 4 = 0
            /\ \A i \in 1..Len(s) :
                  \/ s[i] \in DOMAIN b64_value
                  \/ s[i] = "=" /\ i >= Len(s) - 1
                       /\ (i = Len(s) - 1 => s[Len(s)] = "=")
        pad == IF Len(s) = 0 THEN 0
               ELSE IF s[Len(s) - 1] = "=" THEN 2
               ELSE IF s[Len(s)] = "=" THEN 1
               ELSE 0
        six(i) == IF s[i] = "=" THEN 0 ELSE b64_value[s[i]]
        \* the 24-bit number of each group of four characters
        groups == [g \in 1..(Len(s) \div 4) |->
                      six(4 * g - 3) * 262144 + six(4 * g - 2) * 4096
                      + six(4 * g - 1) * 64 + six(4 * g)]
        byte(j) == LET n == groups[((j - 1) \div 3) + 1]
                       k == (j - 1) % 3
                   IN  IF k = 0 THEN n \div 65536
                       ELSE IF k = 1 THEN (n \div 256) % 256
                       ELSE n % 256
    IN  IF valid
        THEN [ok |-> TRUE, bytes |-> [j \in 1..(3 * (Len(s) \div 4) - pad) |-> byte(j)]]
        ELSE [ok |-> FALSE, bytes |-> <<>>]

\* chr(b) for the code of an ASCII character
chr(b) ==
    IF b = 10 THEN "\n"
    ELSE IF b = 9 THEN "\t"
    ELSE IF b >= 32 /\ b <= 95 THEN ascii_32_95[b - 31]
    ELSE IF b >= 97 /\ b <= 126 THEN ascii_97_126[b - 96]
    ELSE "?"

decode(bytes) == [i \in 1..Len(bytes) |-> chr(bytes[i])]

\* The character of s at position i, "" past the end
at(s, i) == IF i >= 1 /\ i <= Len(s) THEN s[i] ELSE ""

json_whitespace == {" ", "\t", "\n"}

\* The first position from i on that holds no whitespace
skip_ws(s, i) ==
    CHOOSE j \in i..(Len(s) + 1) :
        /\ at(s, j) \notin json_whitespace
        /\ \A k \in i..(j - 1) : s[k] \in json_whitespace

parse_failed == [ok |-> FALSE, v |-> <<>>, i |-> 0]

\* The rest of a string whose opening quote has been read; acc is what has
\* been read of it
RECURSIVE parse_string_body(_, _, _)
parse_string_body(s, i, acc) ==
    IF i > Len(s) THEN parse_failed
    ELSE IF s[i] = "\"" THEN [ok |-> TRUE, v |-> acc, i |-> i + 1]
    ELSE IF s[i] = "\\"
    THEN LET c == at(s, i + 1)
         IN  IF c \in {"\"", "\\", "/"}
             THEN parse_string_body(s, i + 2, Append(acc, c))
             ELSE IF c = "n" THEN parse_string_body(s, i + 2, Append(acc, "\n"))
             ELSE IF c = "t" THEN parse_string_body(s, i + 2, Append(acc, "\t"))
             ELSE parse_failed
    ELSE IF s[i] \in {"\n", "\t"} THEN parse_failed
    ELSE parse_string_body(s, i + 1, Append(acc, s[i]))

parse_string(s, i) ==
    IF at(s, i) = "\"" THEN parse_string_body(s, i + 1, <<>>) ELSE parse_failed

number_chars == {"0","1","2","3","4","5","6","7","8","9","-","+",".","e","E"}

\* A string, null or a number at position i, as a leaf
parse_leaf(s, i) ==
    IF at(s, i) = "\""
    THEN LET r == parse_string(s, i)
         IN  IF r.ok THEN [ok |-> TRUE, v |-> json_str(r.v), i |-> r.i]
             ELSE parse_failed
    ELSE IF i + 3 <= Len(s) /\ SubSeq(s, i, i + 3) = <<"n","u","l","l">>
    THEN [ok |-> TRUE, v |-> json_null, i |-> i + 4]
    ELSE LET j == CHOOSE k \in i..(Len(s) + 1) :
                      /\ at(s, k) \notin number_chars
                      /\ \A m \in i..(k - 1) : s[m] \in number_chars
         IN  IF j > i
             THEN [ok |-> TRUE, v |-> json_num(SubSeq(s, i, j - 1)), i |-> j]
             ELSE parse_failed

\* The fields of an object from position i, the first character of a key,
\* up to its closing brace; acc holds the fields already read
RECURSIVE parse_fields(_, _, _)
parse_fields(s, i, acc) ==
    LET k == parse_string(s, i)
        colon == skip_ws(s, k.i)
        l == parse_leaf(s, skip_ws(s, colon + 1))
        next == skip_ws(s, l.i)
        fields == Append(acc, field(k.v, l.v))
    IN  IF ~k.ok \/ at(s, colon) # ":" THEN parse_failed
        ELSE IF ~l.ok THEN parse_failed
        ELSE IF at(s, next) = "}" THEN [ok |-> TRUE, v |-> fields, i |-> next + 1]
        ELSE IF at(s, next) = ","
        THEN parse_fields(s, skip_ws(s, next + 1), fields)
        ELSE parse_failed

\* An element of the array at position i: an object or a leaf
parse_app(s, i) ==
    IF at(s, i) = "{"
    THEN LET j == skip_ws(s, i + 1)
             r == IF at(s, j) = "}"
                  THEN [ok |-> TRUE, v |-> <<>>, i |-> j + 1]
                  ELSE parse_fields(s, j, <<>>)
         IN  IF r.ok THEN [ok |-> TRUE, v |-> json_obj(r.v), i |-> r.i]
             ELSE parse_failed
    ELSE LET r == parse_leaf(s, i)
         IN  IF r.ok THEN [ok |-> TRUE, v |-> json_leaf(r.v), i |-> r.i]
             ELSE parse_failed

\* The elements of an array from position i, the first character of an
\* element, up to its closing bracket
RECURSIVE parse_items(_, _, _)
parse_items(s, i, acc) ==
    LET e == parse_app(s, i)
        next == skip_ws(s, e.i)
        items == Append(acc, e.v)
    IN  IF ~e.ok THEN parse_failed
        ELSE IF at(s, next) = "]" THEN [ok |-> TRUE, v |-> items, i |-> next + 1]
        ELSE IF at(s, next) = ","
        THEN parse_items(s, skip_ws(s, next + 1), items)
        ELSE parse_failed

\* json.loads(s) for a text that is an array: ok and the list it yields
json_loads(s) ==
    LET i == skip_ws(s, 1)
        j == skip_ws(s, i + 1)
        r == IF at(s, i) # "[" THEN parse_failed
             ELSE IF at(s, j) = "]" THEN [ok |-> TRUE, v |-> <<>>, i |-> j + 1]
             ELSE parse_items(s, j, <<>>)
    IN  IF r.ok /\ skip_ws(s, r.i) = Len(s) + 1
        THEN [ok |-> TRUE, items |-> r.v]
        ELSE [ok |-> FALSE, items |-> <<>>]

\* What decoding and parsing the APPS_JSON_BASE64 argument of c yields
decoded_apps(c) ==
    LET b == b64decode(build_arg_value(c, "APPS_JSON_BASE64"))
    IN  IF b.ok THEN json_loads(decode(b.bytes)) ELSE [ok |-> FALSE, items |-> <<>>]

\* C12: once the command is composed, base64-decoding its APPS_JSON_BASE64
\* argument and parsing the result as JSON succeeds and yields the list
\* that was loaded from the apps file: the same entries in the same order,
\* each with the same fields and values.  (cmd and apps_config do not
\* change after the command is composed, so the state that follows the
\* composition stands for all later ones.)
C12_PayloadRoundTrip ==
    pc = "execute_build" =>
        LET r == decoded_apps(cmd)
        IN  r.ok /\ r.items = apps_config

\* C12 witness: two different entries, the second with fields besides url
\* and branch, a null, an empty string and a string that needs escaping
C12_Witness ==
    /\ pc = "execute_build"
    /\ Len(apps_config) = 2
    /\ apps_config[1] # apps_config[2]
    /\ Len(apps_config[1].fields) = 2
    /\ Len(apps_config[2].fields) = 4
    /\ field_value(apps_config[2], key_url) = json_null
    /\ field_value(apps_config[2], <<"q">>) = json_str(<<"\"", "\\">>)
    /\ LET r == decoded_apps(cmd)
       IN  r.ok /\ r.items = apps_config
====
